---- MODULE Spec2Model ----
(***************************************************************************)
(* Model of src/tools/miri/miri-script/src/util.rs:                        *)
(*   MiriEnv::run_many_times  (lines 221-268), the parallel runner, and    *)
(*   MiriEnv::format_files    (lines 179-218), the batched formatter.      *)
(*                                                                         *)
(* The runner is a set of worker threads plus the orchestrating thread.    *)
(* Every access to the two atomics (`next`, `failed`) is one step; the     *)
(* steps of the threads interleave.  All accesses are Ordering::Relaxed.   *)
(* A worker stores to `failed` only as its last step before returning, and *)
(* a worker that loads `true` returns at once, so the values a relaxed     *)
(* execution lets the loads and fetches return are those of some           *)
(* interleaving, with the store placed between the failing call and the    *)
(* join of that worker.  "After the flag is set" means after that step.    *)
(*                                                                         *)
(* The counter is an AtomicU32; fetch_add wraps on overflow.  The model    *)
(* keeps the wrap and scales the width down: the largest value is MaxU     *)
(* (standing for u32::MAX) and the counter is taken modulo MaxU + 1.       *)
(***************************************************************************)
EXTENDS Integers, Sequences, FiniteSets

\* ---------------------------------------------------------------- bounds
\* Largest value of the scaled-down u32 (stands for u32::MAX = 2^32 - 1).
MaxU == 3
\* Largest pool size thread::available_parallelism() may report.
MaxPool == 2
\* Longest input sequence given to format_files.
MaxFiles == 4
\* Largest batch size (the code's 256, scaled down; every size 1..MaxChunk).
MaxChunk == 2

U32 == 0..MaxU
Modulus == MaxU + 1
Workers == 1..MaxPool

VARIABLES
    \* ---- run_many_times: program state
    start,      \* range.start
    end,        \* range.end (exclusive)
    pool,       \* thread::available_parallelism()?.get(); 0 before the query
    next,       \* AtomicU32 next
    failed,     \* AtomicBool failed
    pc,         \* worker -> "idle" | "fetch" | "run" | "store" | "check" | "done"
    cur,        \* worker -> the value its last fetch_add returned
    wres,       \* worker -> "none" | "ok" | "err": the thread's terminal result
    mainPc,     \* "start" | "spawn" | "join" | "assert" | "exit" | "returned" | "panicked"
    spawned,    \* number of workers spawned so far
    joined,     \* number of handles joined so far
    result,     \* "none" | "ok" | "err": what run_many_times returns
    \* ---- run_many_times: history (never read by an action's guard)
    runs,       \* unit -> number of times it was passed to the operation,
                \* by whichever worker (2 = two or more)
    fetches,    \* worker -> number of fetch_adds it performed (2 = two or more)
    afterFlag,  \* worker -> units it claimed while failed was already true (2 = two or more)
    setter,     \* the worker whose store first made failed true (0: none)
    opFailed,   \* some invocation of the operation returned an error
    lastFetch,  \* the value the most recent fetch_add returned (-1: none yet)
    joinErrLive,\* a join returned an error while another worker was still running
    \* ---- format_files
    files,      \* the input sequence of items
    chunk,      \* the batch size
    fpos,       \* number of items consumed from the input
    args,       \* path arguments of the command under construction
    cmds,       \* path arguments of the commands run so far, in order
    first,      \* the local `first`
    echoed,     \* number of command lines echoed
    fmtPc,      \* "batch" | "add" | "run" | "done"
    fmtResult   \* "none" | "ok" | "err"

runVars == <<start, end, pool, next, failed, pc, cur, wres, mainPc, spawned,
             joined, result, runs, fetches, afterFlag, setter, opFailed,
             lastFetch, joinErrLive>>
fmtVars == <<files, chunk, fpos, args, cmds, first, echoed, fmtPc, fmtResult>>
vars == <<runVars, fmtVars>>

Sat2(n) == IF n >= 2 THEN 2 ELSE n + 1

\* ------------------------------------------------------- run_many_times

\* Lines 227-229: next = range.start, end = range.end, failed = false.
RunInit ==
    /\ start \in U32
    /\ end \in U32
    /\ pool = 0
    /\ next = start
    /\ failed = FALSE
    /\ pc = [w \in Workers |-> "idle"]
    /\ cur = [w \in Workers |-> 0]
    /\ wres = [w \in Workers |-> "none"]
    /\ mainPc = "start"
    /\ spawned = 0
    /\ joined = 0
    /\ result = "none"
    /\ runs = [u \in U32 |-> 0]
    /\ fetches = [w \in Workers |-> 0]
    /\ afterFlag = [w \in Workers |-> 0]
    /\ setter = 0
    /\ opFailed = FALSE
    /\ lastFetch = -1
    /\ joinErrLive = FALSE

\* One idle run_many_times (the state the formatter's specification keeps).
RunIdle ==
    /\ RunInit
    /\ start = 0
    /\ end = 0

mainVars == <<mainPc, spawned, joined, result, pool, joinErrLive>>
histVars == <<runs, fetches, afterFlag, setter, opFailed, lastFetch>>

\* Line 233: thread::available_parallelism()?.get(), evaluated once.
AvailableParallelism ==
    /\ mainPc = "start"
    /\ \/ \E p \in 1..MaxPool :
             /\ pool' = p
             /\ mainPc' = "spawn"
             /\ result' = result
       \/ /\ pool' = pool
          /\ mainPc' = "exit"
          /\ result' = "err"
    /\ UNCHANGED <<start, end, next, failed, pc, cur, wres, spawned, joined,
                   joinErrLive>>
    /\ UNCHANGED histVars
    /\ UNCHANGED fmtVars

\* Lines 233-259: one iteration of the spawn loop.
Spawn ==
    /\ mainPc = "spawn"
    /\ spawned < pool
    /\ pc' = [pc EXCEPT ![spawned + 1] = "fetch"]
    /\ spawned' = spawned + 1
    /\ mainPc' = IF spawned + 1 = pool THEN "join" ELSE "spawn"
    /\ UNCHANGED <<start, end, next, failed, cur, wres, joined, result, pool,
                   joinErrLive>>
    /\ UNCHANGED histVars
    /\ UNCHANGED fmtVars

\* Mutant of FetchAdd: a load where the fetch_add should be.
FetchAddNoInc(n) == n

\* Line 240: next.fetch_add(1, Relaxed) returns the old value and wraps.
FetchAdd(n) == (n + 1) % Modulus

\* Lines 240-246: fetch a value; below `end`, call the operation with it.
FetchAndRun(w) ==
    /\ pc[w] = "fetch"
    /\ next < end
    /\ cur' = [cur EXCEPT ![w] = next]
    /\ next' = FetchAdd(next)
    /\ pc' = [pc EXCEPT ![w] = "run"]
    /\ runs' = [runs EXCEPT ![next] = Sat2(@)]
    /\ fetches' = [fetches EXCEPT ![w] = Sat2(@)]
    /\ afterFlag' = [afterFlag EXCEPT ![w] = IF failed THEN Sat2(@) ELSE @]
    /\ lastFetch' = next
    /\ UNCHANGED <<start, end, failed, wres, setter, opFailed>>
    /\ UNCHANGED mainVars
    /\ UNCHANGED fmtVars

\* Lines 240-244, 256: fetch a value; at or above `end`, break and return Ok.
FetchAndBreak(w) ==
    /\ pc[w] = "fetch"
    /\ next >= end
    /\ cur' = [cur EXCEPT ![w] = next]
    /\ next' = FetchAdd(next)
    /\ pc' = [pc EXCEPT ![w] = "done"]
    /\ wres' = [wres EXCEPT ![w] = "ok"]
    /\ fetches' = [fetches EXCEPT ![w] = Sat2(@)]
    /\ lastFetch' = next
    /\ UNCHANGED <<start, end, failed, runs, afterFlag, setter, opFailed>>
    /\ UNCHANGED mainVars
    /\ UNCHANGED fmtVars

\* Line 246: the operation returns Ok.
RunOk(w) ==
    /\ pc[w] = "run"
    /\ pc' = [pc EXCEPT ![w] = "check"]
    /\ UNCHANGED <<start, end, next, failed, cur, wres>>
    /\ UNCHANGED mainVars
    /\ UNCHANGED histVars
    /\ UNCHANGED fmtVars

\* Line 246: the operation returns Err; map_err's closure runs next.
RunErr(w) ==
    /\ pc[w] = "run"
    /\ pc' = [pc EXCEPT ![w] = "store"]
    /\ opFailed' = TRUE
    /\ UNCHANGED <<start, end, next, failed, cur, wres>>
    /\ UNCHANGED <<runs, fetches, afterFlag, setter, lastFetch>>
    /\ UNCHANGED mainVars
    /\ UNCHANGED fmtVars

\* Mutant of StoreFailed: the error is dropped, the worker returns Ok and
\* the flag stays as it was.
StoreFailedSwallow(w) ==
    /\ pc[w] = "store"
    /\ pc' = [pc EXCEPT ![w] = "done"]
    /\ wres' = [wres EXCEPT ![w] = "ok"]
    /\ UNCHANGED <<start, end, next, failed, cur>>
    /\ UNCHANGED histVars
    /\ UNCHANGED mainVars
    /\ UNCHANGED fmtVars

\* Mutant of StoreFailed: the error is returned but the flag is not stored.
StoreFailedNoStore(w) ==
    /\ pc[w] = "store"
    /\ pc' = [pc EXCEPT ![w] = "done"]
    /\ wres' = [wres EXCEPT ![w] = "err"]
    /\ UNCHANGED <<start, end, next, failed, cur>>
    /\ UNCHANGED histVars
    /\ UNCHANGED mainVars
    /\ UNCHANGED fmtVars

\* Mutant of StoreFailed: the flag is stored but the `?` is missing, so the
\* worker goes on with its loop.
StoreFailedContinue(w) ==
    /\ pc[w] = "store"
    /\ failed' = TRUE
    /\ setter' = IF failed THEN setter ELSE w
    /\ pc' = [pc EXCEPT ![w] = "fetch"]
    /\ UNCHANGED <<start, end, next, cur, wres>>
    /\ UNCHANGED <<runs, fetches, afterFlag, opFailed, lastFetch>>
    /\ UNCHANGED mainVars
    /\ UNCHANGED fmtVars

\* Lines 248-250: failed.store(true, Relaxed); the `?` returns the error.
StoreFailed(w) ==
    /\ pc[w] = "store"
    /\ failed' = TRUE
    /\ setter' = IF failed THEN setter ELSE w
    /\ pc' = [pc EXCEPT ![w] = "done"]
    /\ wres' = [wres EXCEPT ![w] = "err"]
    /\ UNCHANGED <<start, end, next, cur>>
    /\ UNCHANGED <<runs, fetches, afterFlag, opFailed, lastFetch>>
    /\ UNCHANGED mainVars
    /\ UNCHANGED fmtVars

\* Mutant of CheckFailed: the flag is not looked at, the worker loops.
CheckFailedIgnored(w) ==
    /\ pc[w] = "check"
    /\ pc' = [pc EXCEPT ![w] = "fetch"]
    /\ UNCHANGED <<start, end, next, failed, cur, wres>>
    /\ UNCHANGED mainVars
    /\ UNCHANGED histVars
    /\ UNCHANGED fmtVars

\* Lines 252-254: failed.load(Relaxed); return Ok(()) when set, else loop.
CheckFailed(w) ==
    /\ pc[w] = "check"
    /\ IF failed
       THEN /\ pc' = [pc EXCEPT ![w] = "done"]
            /\ wres' = [wres EXCEPT ![w] = "ok"]
       ELSE /\ pc' = [pc EXCEPT ![w] = "fetch"]
            /\ wres' = wres
    /\ UNCHANGED <<start, end, next, failed, cur>>
    /\ UNCHANGED mainVars
    /\ UNCHANGED histVars
    /\ UNCHANGED fmtVars

Live(w) == pc[w] \notin {"idle", "done"}

\* Lines 261-263: handle.join().unwrap()? on a worker that returned Ok.
JoinOk ==
    /\ mainPc = "join"
    /\ joined < pool
    /\ pc[joined + 1] = "done"
    /\ wres[joined + 1] = "ok"
    /\ joined' = joined + 1
    /\ mainPc' = IF joined + 1 = pool THEN "assert" ELSE "join"
    /\ UNCHANGED <<start, end, next, failed, pc, cur, wres, spawned, result,
                   pool, joinErrLive>>
    /\ UNCHANGED histVars
    /\ UNCHANGED fmtVars

\* Lines 261-263: the joined worker returned Err; `?` leaves the closure.
JoinErr ==
    /\ mainPc = "join"
    /\ joined < pool
    /\ pc[joined + 1] = "done"
    /\ wres[joined + 1] = "err"
    /\ result' = "err"
    /\ mainPc' = "exit"
    /\ joinErrLive' = (\E w \in Workers : Live(w))
    /\ UNCHANGED <<start, end, next, failed, pc, cur, wres, spawned, joined,
                   pool>>
    /\ UNCHANGED histVars
    /\ UNCHANGED fmtVars

\* Lines 265-266: assert!(!failed.load(Relaxed)); Ok(()).
AssertNotFailed ==
    /\ mainPc = "assert"
    /\ IF failed
       THEN /\ mainPc' = "panicked"
            /\ result' = result
       ELSE /\ mainPc' = "exit"
            /\ result' = "ok"
    /\ UNCHANGED <<start, end, next, failed, pc, cur, wres, spawned, joined,
                   pool, joinErrLive>>
    /\ UNCHANGED histVars
    /\ UNCHANGED fmtVars

\* Mutant of ScopeJoined: the scope does not wait for the threads left.
ScopeNotJoined == TRUE

\* What thread::scope waits for before it returns: every spawned thread.
ScopeJoined == \A w \in 1..spawned : pc[w] = "done"

\* Lines 230, 267: thread::scope returns the closure's result to the caller.
ScopeExit ==
    /\ mainPc = "exit"
    /\ ScopeJoined
    /\ mainPc' = "returned"
    /\ UNCHANGED <<start, end, next, failed, pc, cur, wres, spawned, joined,
                   result, pool, joinErrLive>>
    /\ UNCHANGED histVars
    /\ UNCHANGED fmtVars

\* --------------------------------------------------------- format_files
\* self.miri_dir, as a sequence of path components.
MiriDir == <<"miri">>

\* The items the `files` iterator may yield: Ok(path) or Err(walkdir::Error).
OkItem(p) == [ok |-> TRUE, path |-> p]
ErrItem == [ok |-> FALSE, path |-> <<>>]
Items ==
    {OkItem(<<"miri", "a.rs">>), OkItem(<<"miri", "b.rs">>),
     OkItem(<<"other", "a.rs">>), ErrItem}

\* Line 208: Path::starts_with, the test strip_prefix makes.
HasPrefix(p, base) ==
    /\ Len(p) >= Len(base)
    /\ SubSeq(p, 1, Len(base)) = base

\* Line 208: file.strip_prefix(&self.miri_dir) on a path under the base.
StripPrefix(p, base) == SubSeq(p, Len(base) + 1, Len(p))

\* Line 191: the batch size given to chunks(); the code fixes it at 256.
FmtInit ==
    /\ files \in UNION {[1..n -> Items] : n \in 0..MaxFiles}
    /\ chunk \in 1..MaxChunk
    /\ fpos = 0
    /\ args = <<>>
    /\ cmds = <<>>
    /\ first = TRUE
    /\ echoed = 0
    /\ fmtPc = "batch"
    /\ fmtResult = "none"

\* No format_files call in progress (the state the runner's specification keeps).
FmtIdle ==
    /\ FmtInit
    /\ files = <<>>
    /\ chunk = 1

\* Lines 191-201: chunks() yields another batch; build the base command and
\* echo it the first time.
BeginBatch ==
    /\ fmtPc = "batch"
    /\ fpos < Len(files)
    /\ args' = <<>>
    /\ echoed' = IF first THEN echoed + 1 ELSE echoed
    /\ first' = FALSE
    /\ fmtPc' = "add"
    /\ UNCHANGED <<files, chunk, fpos, cmds, fmtResult>>
    /\ UNCHANGED runVars

\* Lines 191, 217: the input is exhausted; Ok(()).
FinishOk ==
    /\ fmtPc = "batch"
    /\ fpos = Len(files)
    /\ fmtPc' = "done"
    /\ fmtResult' = "ok"
    /\ UNCHANGED <<files, chunk, fpos, args, cmds, first, echoed>>
    /\ UNCHANGED runVars

\* Mutant of BatchOpen: a batch takes one item more than `chunk`.
BatchOpenOffByOne ==
    /\ fmtPc = "add"
    /\ Len(args) <= chunk
    /\ fpos < Len(files)

\* The batch under construction takes another item: it holds fewer than
\* `chunk` items and the input has more (line 203).
BatchOpen ==
    /\ fmtPc = "add"
    /\ Len(args) < chunk
    /\ fpos < Len(files)

\* Lines 203-210: the next item is a path under miri_dir; add it, relative.
AddFile ==
    /\ BatchOpen
    /\ files[fpos + 1].ok
    /\ HasPrefix(files[fpos + 1].path, MiriDir)
    /\ args' = Append(args, StripPrefix(files[fpos + 1].path, MiriDir))
    /\ fpos' = fpos + 1
    /\ UNCHANGED <<files, chunk, cmds, first, echoed, fmtPc, fmtResult>>
    /\ UNCHANGED runVars

\* Line 207: `file?` on an item that is an error.
AddFileReadErr ==
    /\ BatchOpen
    /\ ~files[fpos + 1].ok
    /\ fpos' = fpos + 1
    /\ fmtPc' = "done"
    /\ fmtResult' = "err"
    /\ UNCHANGED <<files, chunk, args, cmds, first, echoed>>
    /\ UNCHANGED runVars

\* Line 208: strip_prefix fails on a path outside miri_dir.
AddFileOutside ==
    /\ BatchOpen
    /\ files[fpos + 1].ok
    /\ ~HasPrefix(files[fpos + 1].path, MiriDir)
    /\ fpos' = fpos + 1
    /\ fmtPc' = "done"
    /\ fmtResult' = "err"
    /\ UNCHANGED <<files, chunk, args, cmds, first, echoed>>
    /\ UNCHANGED runVars

\* The batch is complete: `chunk` items, or the input ran out (line 203).
BatchFull ==
    /\ fmtPc = "add"
    /\ \/ Len(args) = chunk
       \/ fpos = Len(files)

\* Line 214: rustfmt runs and succeeds.
RustfmtOk ==
    /\ BatchFull
    /\ cmds' = Append(cmds, args)
    /\ fmtPc' = "batch"
    /\ UNCHANGED <<files, chunk, fpos, args, first, echoed, fmtResult>>
    /\ UNCHANGED runVars

\* Line 214: rustfmt runs and fails; "`rustfmt` failed" is returned.
RustfmtFail ==
    /\ BatchFull
    /\ cmds' = Append(cmds, args)
    /\ fmtPc' = "done"
    /\ fmtResult' = "err"
    /\ UNCHANGED <<files, chunk, fpos, args, first, echoed>>
    /\ UNCHANGED runVars

\* ------------------------------------------------------- specifications
Init ==
    /\ RunInit
    /\ FmtIdle

Next ==
    \/ AvailableParallelism
    \/ Spawn
    \/ \E w \in Workers : FetchAndRun(w)
    \/ \E w \in Workers : FetchAndBreak(w)
    \/ \E w \in Workers : RunOk(w)
    \/ \E w \in Workers : RunErr(w)
    \/ \E w \in Workers : StoreFailed(w)
    \/ \E w \in Workers : CheckFailed(w)
    \/ JoinOk
    \/ JoinErr
    \/ AssertNotFailed
    \/ ScopeExit

Spec == Init /\ [][Next]_vars

\* The scheduler keeps running some thread that can take a step, and every
\* call of the operation returns (RunOk or RunErr).  This is the weakest
\* fairness a scheduler gives; fairness to each thread implies it.
FairSpec ==
    /\ Init
    /\ [][Next]_vars
    /\ WF_vars(Next)

FmtSpecInit ==
    /\ RunIdle
    /\ FmtInit

FmtNext ==
    \/ BeginBatch
    \/ FinishOk
    \/ AddFile
    \/ AddFileReadErr
    \/ AddFileOutside
    \/ RustfmtOk
    \/ RustfmtFail

FmtSpec == FmtSpecInit /\ [][FmtNext]_vars

\* ================================================================ claims
Range == {u \in U32 : start <= u /\ u < end}
Pool == 1..pool
\* No unit was passed to the operation twice, by one worker or by two: the
\* sets of units the workers ran are pairwise disjoint.
NoUnitTwice == \A u \in U32 : runs[u] <= 1
\* The units passed to the operation so far, by all workers together.
AllUnits == {u \in U32 : runs[u] > 0}
Returned == mainPc = "returned" /\ pool > 0
AllWorkersDone == pool > 0 /\ spawned = pool /\ \A w \in Pool : pc[w] = "done"

\* C1: when no invocation of the operation fails, every integer of a
\* non-empty range [start, end) is passed to the operation exactly once
\* across all workers: at any time no unit was run twice (by one worker or by
\* two) and none lies outside the range, and once run_many_times has
\* returned the units run are the whole range.
C1_ExactlyOnce ==
    (start < end /\ ~opFailed) =>
        /\ NoUnitTwice
        /\ AllUnits \subseteq Range
        /\ (Returned => AllUnits = Range)

\* The counter of this run never passes MaxU: one fetch per unit and one
\* more per worker stay below the modulus.
NoWrap == pool > 0 /\ (IF start < end THEN end ELSE start) + pool <= Modulus

\* The statement of C1 for the runs whose counter does not wrap, empty
\* ranges included: there it holds.
ExactlyOnceWithoutWrap ==
    (NoWrap /\ ~opFailed) =>
        /\ NoUnitTwice
        /\ AllUnits \subseteq Range
        /\ (Returned => AllUnits = Range)

\* C2: whenever some invocation of the operation failed, what
\* run_many_times returns is an error, never success.
C2_FailureReturnsError == (mainPc = "returned" /\ opFailed) => result = "err"

\* C2 witness: an error is returned although the first worker joined
\* returned Ok (the failing worker is a later one).
C2_Witness ==
    /\ mainPc = "returned"
    /\ opFailed
    /\ result = "err"
    /\ wres[1] = "ok"

\* C3: at the moment run_many_times returns, every spawned worker has
\* terminated and no invocation of the operation is in flight.
C3_JoinedBeforeReturn == mainPc = "returned" => \A w \in Workers : ~Live(w)

\* C3 witness: a return after a join that produced an error while another
\* worker was still running.
C3_Witness == mainPc = "returned" /\ joinErrLive

\* C4 (as claimed): a worker that begins a loop iteration with the flag
\* already true exits without fetching a unit and without invoking the
\* operation.
C4_Original ==
    [][\A w \in Workers :
          (pc[w] = "fetch" /\ failed /\ pc'[w] # pc[w]) =>
              /\ pc'[w] = "done"
              /\ next' = next
              /\ runs' = runs]_vars

\* C4 (amended): the flag is looked at after each operation that succeeded,
\* not at the top of the loop.  A worker whose check finds the flag true
\* exits with Ok, without another fetch and without invoking the operation;
\* a worker at the top of the loop fetches whatever the flag is.
C4_Amended ==
    [][\A w \in Workers :
          /\ (pc[w] = "check" /\ failed /\ pc'[w] # pc[w]) =>
                 /\ pc'[w] = "done"
                 /\ wres'[w] = "ok"
                 /\ next' = next
                 /\ runs' = runs
          /\ (pc[w] = "fetch" /\ pc'[w] # pc[w]) =>
                 /\ next' = FetchAdd(next)
                 /\ fetches'[w] # fetches[w] \/ fetches[w] = 2]_vars

\* C4 witness: a worker that claimed a unit with the flag already true, ran
\* it, and then left at its check.
C4_Witness ==
    \E w \in Workers :
        /\ pc[w] = "done"
        /\ wres[w] = "ok"
        /\ cur[w] < end
        /\ afterFlag[w] = 1

\* C5: for an empty range (start >= end) run_many_times returns success,
\* the operation is never invoked and each worker does exactly one
\* fetch_add.
C5_EmptyRange ==
    (start >= end /\ Returned) =>
        /\ result = "ok"
        /\ AllUnits = {}
        /\ \A w \in Pool : fetches[w] = 1

\* The statement of C5 for the empty ranges whose counter does not wrap
\* (start + pool <= MaxU + 1, such as [5, 5) on a u32): there it holds.
EmptyRangeWithoutWrap ==
    (NoWrap /\ start >= end /\ Returned) =>
        /\ result = "ok"
        /\ AllUnits = {}
        /\ \A w \in Pool : fetches[w] = 1

\* C7: under fair scheduling, and with every invocation returning, every
\* worker eventually leaves its loop and run_many_times eventually returns.
C7_Terminates == <>(mainPc = "returned" /\ \A w \in Workers : ~Live(w))

\* C7 witness: a return of a full pool, each worker having fetched more than
\* once (so each ran a unit).
C7_Witness ==
    /\ mainPc = "returned"
    /\ pool = MaxPool
    /\ \A w \in Pool : fetches[w] = 2

\* C8: when all workers have terminated the flag is true exactly when some
\* worker's terminal result is an error, and the final assertion never
\* fails.
C8_FlagIffError ==
    /\ AllWorkersDone => (failed <=> \E w \in Pool : wres[w] = "err")
    /\ mainPc # "panicked"

\* C8 witness: all workers done, one of them with an error, the flag set.
C8_Witness ==
    /\ AllWorkersDone
    /\ failed
    /\ \E w \in Pool : wres[w] = "err"
    /\ \E w \in Pool : wres[w] = "ok"

\* C9: after the flag has been set each worker claims at most one further
\* unit, the worker that set it claims none, so at most pool - 1 units are
\* claimed after the flag became true.
C9_AtMostOneAfterFlag ==
    /\ \A w \in Workers : afterFlag[w] <= 1
    /\ setter # 0 => afterFlag[setter] = 0
    /\ failed => Cardinality({w \in Workers : afterFlag[w] > 0}) <= pool - 1

\* C9 witness: every worker but the one that set the flag claimed a unit
\* after it was set.
C9_Witness ==
    /\ mainPc = "returned"
    /\ pool >= 2
    /\ Cardinality({w \in Workers : afterFlag[w] = 1}) = pool - 1

\* C10: the values successive fetch_adds return are strictly increasing
\* (the counter never wraps around).
C10_StrictlyIncreasing == [][lastFetch' = lastFetch \/ lastFetch' > lastFetch]_vars

\* ----------------------------------------------------------- format_files
RECURSIVE Flatten(_)
Flatten(ss) == IF ss = <<>> THEN <<>> ELSE Head(ss) \o Flatten(Tail(ss))

CeilDiv(a, b) == (a + b - 1) \div b

\* C6: when format_files returns Ok, ceil(L/B) commands were run, each with
\* at least one and at most B paths, and the paths of the commands, in the
\* order they were run and put back under miri_dir, are the input sequence.
C6_Batching ==
    (fmtPc = "done" /\ fmtResult = "ok") =>
        /\ Len(cmds) = CeilDiv(Len(files), chunk)
        /\ \A i \in 1..Len(cmds) : Len(cmds[i]) >= 1 /\ Len(cmds[i]) <= chunk
        /\ Len(Flatten(cmds)) = Len(files)
        /\ \A i \in 1..Len(files) :
               /\ files[i].ok
               /\ MiriDir \o Flatten(cmds)[i] = files[i].path

\* C6 witness: an Ok return with several batches, the last one partial.
C6_Witness ==
    /\ fmtPc = "done"
    /\ fmtResult = "ok"
    /\ Len(files) > chunk
    /\ Len(files) % chunk # 0
    /\ files[1] # files[2]

====
